---- MODULE Spec2Model ----
(***************************************************************************)
(* Boat-Load assignment subsystem of the Cargo Management API (boats.js).  *)
(* The datastore holds Boat and Load entities; every route handler is an   *)
(* async function whose steps are the synchronous stretches between its    *)
(* awaits on the datastore.  Spec runs one request at a time, SpecConc     *)
(* lets the handlers of several requests interleave at their awaits,       *)
(* SpecAssigns does so for assigns alone, SpecBoats and SpecCreate run the *)
(* routes that write boats, and SpecStop lets the process fail.            *)
(***************************************************************************)
EXTENDS Integers, Sequences, FiniteSets, TLC

\* Bounds of the model.
MaxBoat == 2
MaxLoad == 2
NumProcs == 2

BoatIds == 1..MaxBoat
LoadIds == 1..MaxLoad
Procs == 1..NumProcs

\* Google subscriber ids (req.sub) of the authenticated callers.
Principals == {"sub1", "sub2"}

\* JavaScript null (Load.carrier of an unassigned load) and undefined.
Null == 0
undefined == "undefined"
UndefinedEntity == [undefined |-> TRUE]

VARIABLES
    boats,   \* datastore kind 'Boat': key id -> stored entity data
    loads,   \* datastore kind 'Load': key id -> stored entity data
    req,     \* the request each handler slot is serving, with its locals
    trip     \* history: how far the latest requests follow assign, unassign, assign

vars == <<boats, loads, req, trip>>

-----------------------------------------------------------------------------
\* Datastore adapter (database.js wraps @google-cloud/datastore).

\* datastore.get(key): the entity, or undefined when the key has none.
Get(kind, id) == IF id \in DOMAIN kind THEN kind[id] ELSE UndefinedEntity

\* A property read on a JavaScript object: undefined when the object lacks it.
Field(obj, f) == IF f \in DOMAIN obj THEN obj[f] ELSE undefined

\* datastore.update(entity) overwrites the whole entity under its key.
Put(kind, id, data) == [k \in DOMAIN kind \cup {id} |-> IF k = id THEN data ELSE kind[k]]

\* datastore.delete(key).
Remove(kind, id) == [k \in DOMAIN kind \ {id} |-> kind[k]]

-----------------------------------------------------------------------------
\* Responses.

NoResponse == [sent |-> FALSE, status |-> 0, Error |-> "", body |-> <<>>]
Response(status, error) == [sent |-> TRUE, status |-> status, Error |-> error, body |-> <<>>]
Json(status, body) == [sent |-> TRUE, status |-> status, Error |-> "", body |-> body]

ErrBoth == "The specified boat and load does not exist"
ErrBoat == "The specified boat does not exist"
ErrLoad == "The specified load does not exist"
ErrThisBoat == "The specified load has already been assigned to this boat."
ErrOtherBoat == "The specified load has already been assigned to another boat."
ErrNotOnBoat == "The specified load is not on this boat."
ErrNoBoatId == "No boat with this boat_id exists"
ErrNotOwner == "This boat_id exists but you are not the owner."
ErrAuth == "You must be authenticated to perform this action."
ErrMissing == "The request object is missing at least one of the required attributes"
ErrSameName == "There is already a boat with this name."
ErrNotFound == "A boat with this boat_id was not found."
ErrNoProperties == "No properties of the boat were included in the body of the request."
ErrPutAll == "PUTs at this endpoint require that all fields are updated. Use PATCH for partial updates."

-----------------------------------------------------------------------------
\* Handler slots.

Final == {"idle", "done", "threw"}

Idle ==
    [op |-> "none", pc |-> "idle", boat_id |-> 0, load_id |-> 0,
     authenticated |-> FALSE, sub |-> undefined,
     boatResult |-> UndefinedEntity, loadResult |-> UndefinedEntity,
     hydrated |-> <<>>, body |-> <<>>,
     res |-> NoResponse, wrote |-> <<>>, pre |-> [boats |-> <<>>, loads |-> <<>>]]

\* A request as it reaches a handler: its route, parameters and what the
\* authentication middleware attached to it; pre remembers the store then,
\* and wrote lists the kinds the two load routes have written for it so far.
NewRequest(op, b, l, auth, sub, pc) ==
    [op |-> op, pc |-> pc, boat_id |-> b, load_id |-> l,
     authenticated |-> auth, sub |-> sub,
     boatResult |-> UndefinedEntity, loadResult |-> UndefinedEntity,
     hydrated |-> <<>>, body |-> <<>>,
     res |-> NoResponse, wrote |-> <<>>, pre |-> [boats |-> boats, loads |-> loads]]

\* The same for the routes that take a JSON body.
NewBoatRequest(op, b, body, auth, sub, pc) ==
    [NewRequest(op, b, 0, auth, sub, pc) EXCEPT !.body = body]

\* The caller identities the middleware can attach: <<authenticated, sub>>.
Callers == {<<FALSE, undefined>>} \cup {<<TRUE, s>> : s \in Principals}

\* The same for the handlers that never read req.sub: one principal stands
\* for all.
AnyCaller == {<<FALSE, undefined>>, <<TRUE, "sub1">>}

Finish(r, response) == [r EXCEPT !.pc = "done", !.res = response]
Throw(r) == [r EXCEPT !.pc = "threw"]

\* History of the latest requests, advanced as each request arrives: stage k
\* says that the latest k requests were, in this order, an authenticated
\* assign of an unassigned load to a boat (both stored), an authenticated
\* unassign of that load from that boat, and an authenticated assign of that
\* load to another stored boat; loads0 is the first boat's loads before it all.
NoTrip == [stage |-> 0, boat |-> 0, load |-> 0, boat2 |-> 0, loads0 |-> <<>>]

Observe(t, r) ==
    IF /\ t.stage = 1 /\ r.op = "unassign" /\ r.authenticated
       /\ r.boat_id = t.boat /\ r.load_id = t.load
    THEN [t EXCEPT !.stage = 2]
    ELSE IF /\ t.stage = 2 /\ r.op = "assign" /\ r.authenticated
            /\ r.load_id = t.load /\ r.boat_id # t.boat
            /\ r.boat_id \in DOMAIN boats
    THEN [t EXCEPT !.stage = 3, !.boat2 = r.boat_id]
    ELSE IF /\ r.op = "assign" /\ r.authenticated
            /\ r.boat_id \in DOMAIN boats /\ r.load_id \in DOMAIN loads
            /\ "loads" \in DOMAIN boats[r.boat_id]
            /\ loads[r.load_id].carrier = Null
    THEN [stage |-> 1, boat |-> r.boat_id, load |-> r.load_id, boat2 |-> 0,
          loads0 |-> boats[r.boat_id].loads]
    ELSE NoTrip

-----------------------------------------------------------------------------
\* The datastore when the requests below start to arrive: some boats and
\* loads have been created and nothing has been assigned yet.

\* The principal who created the boats; the other one owns none.
Creator == "sub1"

\* A boat as POST / stores it: no loads yet, owned by its creator.  None of
\* the handlers below reads isPublic, so one value per boat is enough.
BoatEntity(b, owner) ==
    [name |-> b, type |-> "boat", length |-> 10 + b, owner |-> owner,
     isPublic |-> (b % 2 = 1), loads |-> <<>>]

\* A load as POST /loads stores it: on no boat.
LoadEntity(l) ==
    [volume |-> l, carrier |-> Null, content |-> "cargo", creation_date |-> "05/24/2021"]

Init ==
    /\ \E ids \in SUBSET BoatIds : boats = [b \in ids |-> BoatEntity(b, Creator)]
    /\ \E ids \in SUBSET LoadIds : loads = [l \in ids |-> LoadEntity(l)]
    /\ req = [p \in Procs |-> Idle]
    /\ trip = NoTrip

-----------------------------------------------------------------------------
\* PUT /:boat_id/loads/:load_id  (put a load in a boat)

\* Faulty variant of AssignOutcome: assigning again to the same boat is accepted.
AssignOutcomeIdempotent(boatResult, loadResult, boat_id) ==
    IF boatResult = UndefinedEntity /\ loadResult = UndefinedEntity
    THEN Response(404, ErrBoth)
    ELSE IF boatResult = UndefinedEntity
    THEN Response(404, ErrBoat)
    ELSE IF loadResult = UndefinedEntity
    THEN Response(404, ErrLoad)
    ELSE IF loadResult.carrier # Null /\ loadResult.carrier # boat_id
    THEN Response(403, ErrOtherBoat)
    ELSE Response(204, "")

\* Faulty variant of AssignOutcome: only a load already on this boat is refused.
AssignOutcomeSteals(boatResult, loadResult, boat_id) ==
    IF boatResult = UndefinedEntity /\ loadResult = UndefinedEntity
    THEN Response(404, ErrBoth)
    ELSE IF boatResult = UndefinedEntity
    THEN Response(404, ErrBoat)
    ELSE IF loadResult = UndefinedEntity
    THEN Response(404, ErrLoad)
    ELSE IF loadResult.carrier = boat_id
    THEN Response(403, ErrThisBoat)
    ELSE Response(204, "")

\* The checks made once both entities are read: the response of the branch
\* taken, 204 standing for the branch that goes on to write.
AssignOutcome(boatResult, loadResult, boat_id) ==
    IF boatResult = UndefinedEntity /\ loadResult = UndefinedEntity
    THEN Response(404, ErrBoth)
    ELSE IF boatResult = UndefinedEntity
    THEN Response(404, ErrBoat)
    ELSE IF loadResult = UndefinedEntity
    THEN Response(404, ErrLoad)
    ELSE IF loadResult.carrier # Null
    THEN IF loadResult.carrier = boat_id
         THEN Response(403, ErrThisBoat)
         ELSE Response(403, ErrOtherBoat)
    ELSE Response(204, "")

\* Faulty variant of AssignLoads: the reference is put in front.
AssignLoadsInFront(boatLoads, load_id) == <<load_id>> \o boatLoads

\* boatResult.loads.push(loadKey)
AssignLoads(boatLoads, load_id) == Append(boatLoads, load_id)

\* Faulty variant of AssignBoatData: the boat is written without its loads.
AssignBoatDataNoLoads(boatResult) ==
    [name |-> Field(boatResult, "name"), type |-> Field(boatResult, "type"),
     length |-> Field(boatResult, "length"), loads |-> <<>>]

\* The boat object handed to datastore.update.
AssignBoatData(boatResult) ==
    [name |-> Field(boatResult, "name"), type |-> Field(boatResult, "type"),
     length |-> Field(boatResult, "length"), loads |-> boatResult.loads]

\* Faulty variant of AssignLoadData: the carrier is copied instead of set.
AssignLoadDataKeepsCarrier(loadResult, boat_id) ==
    [volume |-> Field(loadResult, "volume"), carrier |-> loadResult.carrier,
     content |-> Field(loadResult, "content"),
     creation_date |-> Field(loadResult, "creation_date")]

\* The load object handed to datastore.update.
AssignLoadData(loadResult, boat_id) ==
    [volume |-> Field(loadResult, "volume"), carrier |-> boat_id,
     content |-> Field(loadResult, "content"),
     creation_date |-> Field(loadResult, "creation_date")]

\* The request arrives; an unauthenticated one falls through the handler's
\* single if and the handler returns without sending anything.
AssignStart(p) ==
    /\ req[p].pc \in Final
    /\ \E b \in BoatIds, l \in LoadIds, c \in AnyCaller :
         req' = [req EXCEPT ![p] =
                   NewRequest("assign", b, l, c[1], c[2],
                              IF c[1] THEN "getBoat" ELSE "done")]
    /\ trip' = Observe(trip, req'[p])
    /\ UNCHANGED <<boats, loads>>

AssignGetBoat(p) ==
    /\ req[p].op = "assign" /\ req[p].pc = "getBoat"
    /\ req' = [req EXCEPT ![p].boatResult = Get(boats, req[p].boat_id),
                          ![p].pc = "getLoad"]
    /\ UNCHANGED <<boats, loads, trip>>

\* boatResult.loads.push is a TypeError on a boat stored without loads.
AssignGetLoad(p) ==
    /\ req[p].op = "assign" /\ req[p].pc = "getLoad"
    /\ LET r == req[p]
           loadResult == Get(loads, r.load_id)
           out == AssignOutcome(r.boatResult, loadResult, r.boat_id)
       IN  req' = [req EXCEPT ![p] =
                     IF out.status # 204
                     THEN Finish([r EXCEPT !.loadResult = loadResult], out)
                     ELSE IF "loads" \notin DOMAIN r.boatResult
                     THEN Throw([r EXCEPT !.loadResult = loadResult])
                     ELSE [r EXCEPT !.loadResult = loadResult,
                                    !.boatResult.loads =
                                        AssignLoads(r.boatResult.loads, r.load_id),
                                    !.pc = "updateBoat"]]
    /\ UNCHANGED <<boats, loads, trip>>

\* Faulty variant of AssignUpdateBoat: the first write is the load's.
AssignUpdateLoadFirst(p) ==
    /\ req[p].op = "assign" /\ req[p].pc = "updateBoat"
    /\ LET r == req[p]
       IN  IF r.load_id \in DOMAIN loads
           THEN /\ loads' = Put(loads, r.load_id, AssignLoadData(r.loadResult, r.boat_id))
                /\ req' = [req EXCEPT ![p].pc = "updateLoad",
                                      ![p].wrote = Append(@, "Load")]
           ELSE /\ loads' = loads
                /\ req' = [req EXCEPT ![p] = Throw(r)]
    /\ UNCHANGED <<boats, trip>>

\* datastore.update rejects when the key holds no entity any more.
AssignUpdateBoat(p) ==
    /\ req[p].op = "assign" /\ req[p].pc = "updateBoat"
    /\ LET r == req[p]
       IN  IF r.boat_id \in DOMAIN boats
           THEN /\ boats' = Put(boats, r.boat_id, AssignBoatData(r.boatResult))
                /\ req' = [req EXCEPT ![p].pc = "updateLoad",
                                      ![p].wrote = Append(@, "Boat")]
           ELSE /\ boats' = boats
                /\ req' = [req EXCEPT ![p] = Throw(r)]
    /\ UNCHANGED <<loads, trip>>

AssignUpdateLoad(p) ==
    /\ req[p].op = "assign" /\ req[p].pc = "updateLoad"
    /\ LET r == req[p]
       IN  IF r.load_id \in DOMAIN loads
           THEN /\ loads' = Put(loads, r.load_id, AssignLoadData(r.loadResult, r.boat_id))
                /\ req' = [req EXCEPT ![p] =
                             Finish([r EXCEPT !.wrote = Append(@, "Load")],
                                    Response(204, ""))]
           ELSE /\ loads' = loads
                /\ req' = [req EXCEPT ![p] = Throw(r)]
    /\ UNCHANGED <<boats, trip>>

-----------------------------------------------------------------------------
\* DELETE /:boat_id/loads/:load_id  (remove a load from a boat)

\* Datastore keys are equal when their identifiers are.
keysAreEqual(carrier, boat_id) == carrier = boat_id

\* Faulty variant of UnassignOutcome: only an unassigned load is refused.
UnassignOutcomeNullOnly(boatResult, loadResult, boat_id) ==
    IF boatResult = UndefinedEntity /\ loadResult = UndefinedEntity
    THEN Response(404, ErrBoth)
    ELSE IF boatResult = UndefinedEntity
    THEN Response(404, ErrBoat)
    ELSE IF loadResult = UndefinedEntity
    THEN Response(404, ErrLoad)
    ELSE IF loadResult.carrier = Null
    THEN Response(403, ErrNotOnBoat)
    ELSE Response(204, "")

\* Faulty variant of UnassignOutcome: the two single-miss messages are swapped.
UnassignOutcomeSwapped(boatResult, loadResult, boat_id) ==
    IF boatResult = UndefinedEntity /\ loadResult = UndefinedEntity
    THEN Response(404, ErrBoth)
    ELSE IF boatResult = UndefinedEntity
    THEN Response(404, ErrLoad)
    ELSE IF loadResult = UndefinedEntity
    THEN Response(404, ErrBoat)
    ELSE IF loadResult.carrier = Null \/ loadResult.carrier # boat_id
    THEN Response(403, ErrNotOnBoat)
    ELSE Response(204, "")

UnassignOutcome(boatResult, loadResult, boat_id) ==
    IF boatResult = UndefinedEntity /\ loadResult = UndefinedEntity
    THEN Response(404, ErrBoth)
    ELSE IF boatResult = UndefinedEntity
    THEN Response(404, ErrBoat)
    ELSE IF loadResult = UndefinedEntity
    THEN Response(404, ErrLoad)
    ELSE IF loadResult.carrier = Null \/ ~keysAreEqual(loadResult.carrier, boat_id)
    THEN Response(403, ErrNotOnBoat)
    ELSE Response(204, "")

\* Faulty variant of UnassignLoads: the filter keeps every reference.
UnassignLoadsKeepsAll(boatLoads, load_id) == boatLoads

\* boatResult.loads.filter(element => element.id !== loadKey.id)
UnassignLoads(boatLoads, load_id) == SelectSeq(boatLoads, LAMBDA element : element # load_id)

\* Faulty variant of UnassignBoatData: the boat is written with no loads at all.
UnassignBoatDataNoLoads(boatResult) ==
    [name |-> Field(boatResult, "name"), type |-> Field(boatResult, "type"),
     length |-> Field(boatResult, "length"), loads |-> <<>>]

UnassignBoatData(boatResult) ==
    [name |-> Field(boatResult, "name"), type |-> Field(boatResult, "type"),
     length |-> Field(boatResult, "length"), loads |-> boatResult.loads]

\* Faulty variant of UnassignLoadData: the carrier is copied instead of cleared.
UnassignLoadDataKeepsCarrier(loadResult) ==
    [volume |-> Field(loadResult, "volume"), carrier |-> loadResult.carrier,
     content |-> Field(loadResult, "content"),
     creation_date |-> Field(loadResult, "creation_date")]

UnassignLoadData(loadResult) ==
    [volume |-> Field(loadResult, "volume"), carrier |-> Null,
     content |-> Field(loadResult, "content"),
     creation_date |-> Field(loadResult, "creation_date")]

UnassignStart(p) ==
    /\ req[p].pc \in Final
    /\ \E b \in BoatIds, l \in LoadIds, c \in AnyCaller :
         req' = [req EXCEPT ![p] =
                   NewRequest("unassign", b, l, c[1], c[2],
                              IF c[1] THEN "getBoat" ELSE "done")]
    /\ trip' = Observe(trip, req'[p])
    /\ UNCHANGED <<boats, loads>>

UnassignGetBoat(p) ==
    /\ req[p].op = "unassign" /\ req[p].pc = "getBoat"
    /\ req' = [req EXCEPT ![p].boatResult = Get(boats, req[p].boat_id),
                          ![p].pc = "getLoad"]
    /\ UNCHANGED <<boats, loads, trip>>

\* boatResult.loads.filter is a TypeError on a boat stored without loads.
UnassignGetLoad(p) ==
    /\ req[p].op = "unassign" /\ req[p].pc = "getLoad"
    /\ LET r == req[p]
           loadResult == Get(loads, r.load_id)
           out == UnassignOutcome(r.boatResult, loadResult, r.boat_id)
       IN  req' = [req EXCEPT ![p] =
                     IF out.status # 204
                     THEN Finish([r EXCEPT !.loadResult = loadResult], out)
                     ELSE IF "loads" \notin DOMAIN r.boatResult
                     THEN Throw([r EXCEPT !.loadResult = loadResult])
                     ELSE [r EXCEPT !.loadResult = loadResult,
                                    !.boatResult.loads =
                                        UnassignLoads(r.boatResult.loads, r.load_id),
                                    !.pc = "updateBoat"]]
    /\ UNCHANGED <<boats, loads, trip>>

UnassignUpdateBoat(p) ==
    /\ req[p].op = "unassign" /\ req[p].pc = "updateBoat"
    /\ LET r == req[p]
       IN  IF r.boat_id \in DOMAIN boats
           THEN /\ boats' = Put(boats, r.boat_id, UnassignBoatData(r.boatResult))
                /\ req' = [req EXCEPT ![p].pc = "updateLoad",
                                      ![p].wrote = Append(@, "Boat")]
           ELSE /\ boats' = boats
                /\ req' = [req EXCEPT ![p] = Throw(r)]
    /\ UNCHANGED <<loads, trip>>

UnassignUpdateLoad(p) ==
    /\ req[p].op = "unassign" /\ req[p].pc = "updateLoad"
    /\ LET r == req[p]
       IN  IF r.load_id \in DOMAIN loads
           THEN /\ loads' = Put(loads, r.load_id, UnassignLoadData(r.loadResult))
                /\ req' = [req EXCEPT ![p] =
                             Finish([r EXCEPT !.wrote = Append(@, "Load")],
                                    Response(204, ""))]
           ELSE /\ loads' = loads
                /\ req' = [req EXCEPT ![p] = Throw(r)]
    /\ UNCHANGED <<boats, trip>>

-----------------------------------------------------------------------------
\* DELETE /:boat_id  (delete a boat)

\* helper.getBoatFromID: the stored boat, or undefined.
getBoatFromID(boat_id) == Get(boats, boat_id)

\* Faulty variant of DeleteBoatOutcome: the owner is not compared.
DeleteBoatOutcomeAnyOwner(boatResult, sub) ==
    IF boatResult = UndefinedEntity
    THEN Response(403, ErrNoBoatId)
    ELSE Response(204, "")

DeleteBoatOutcome(boatResult, sub) ==
    IF boatResult = UndefinedEntity
    THEN Response(403, ErrNoBoatId)
    ELSE IF Field(boatResult, "owner") # sub
    THEN Response(403, ErrNotOwner)
    ELSE Response(204, "")

DeleteBoatStart(p) ==
    /\ req[p].pc \in Final
    /\ \E b \in BoatIds, c \in Callers :
         req' = [req EXCEPT ![p] =
                   IF c[1]
                   THEN NewRequest("deleteBoat", b, 0, c[1], c[2], "getBoatFromID")
                   ELSE Finish(NewRequest("deleteBoat", b, 0, c[1], c[2], "done"),
                               Response(401, ErrAuth))]
    /\ trip' = Observe(trip, req'[p])
    /\ UNCHANGED <<boats, loads>>

DeleteBoatGet(p) ==
    /\ req[p].op = "deleteBoat" /\ req[p].pc = "getBoatFromID"
    /\ LET r == req[p]
           boatResult == getBoatFromID(r.boat_id)
           out == DeleteBoatOutcome(boatResult, r.sub)
       IN  req' = [req EXCEPT ![p] =
                     IF out.status = 204
                     THEN [r EXCEPT !.boatResult = boatResult, !.pc = "delete"]
                     ELSE Finish([r EXCEPT !.boatResult = boatResult], out)]
    /\ UNCHANGED <<boats, loads, trip>>

DeleteBoatDelete(p) ==
    /\ req[p].op = "deleteBoat" /\ req[p].pc = "delete"
    /\ boats' = Remove(boats, req[p].boat_id)
    /\ req' = [req EXCEPT ![p] = Finish(req[p], Response(204, ""))]
    /\ UNCHANGED <<loads, trip>>

-----------------------------------------------------------------------------
\* Request bodies of POST /, PATCH /:boat_id and PUT /:boat_id, and the
\* helper and Boat-class functions these handlers call.

\* Boat names are small numbers, those of the boats stored at the start
\* among them, so that a body can name a boat that exists.
Names == BoatIds

\* A complete body, a body with a name only, an empty one.
Bodies ==
    {[name |-> n, type |-> "yacht", length |-> 20] : n \in Names}
    \cup {[name |-> n] : n \in Names}
    \cup {<<>>}

\* What requestIsValid sends before it returns false.
InvalidBody == Response(400, "The request body is not valid.")

\* Boat.hasAllFields: the body has a name, a type and a length.
hasAllFields(body) == {"name", "type", "length"} \subseteq DOMAIN body

\* helper.existsBoatWithSameName(name, boat_id): some stored boat other than
\* boat_id has exactly this name.
existsBoatWithSameName(body, boat_id) ==
    /\ "name" \in DOMAIN body
    /\ \E b \in DOMAIN boats : b # boat_id /\ Field(boats[b], "name") = body.name

\* Boat.insert: the entity stored for a new boat of this body and owner.
InsertData(id, body, sub) ==
    [BoatEntity(id, sub) EXCEPT !.name = body.name, !.type = body.type,
                                !.length = body.length]

\* Boat.updateFields / Boat.updateAllFields: whether the body is accepted.
updateFields(body) == DOMAIN body # {}
updateAllFields(body) == hasAllFields(body)

\* new Boat(boatResult.name, boatResult.type, boatResult.length) after
\* updateFields(req.body): the three fields, taken from the body where it
\* has them.
UpdatedBoat(boatResult, body) ==
    [f \in {"name", "type", "length"} |->
        IF f \in DOMAIN body THEN body[f] ELSE Field(boatResult, f)]

\* helper.affixIDAndSelf / Boat.getBoat: the entity with its id and self link.
affixIDAndSelf(boat_id, boatResult) ==
    [id |-> ToString(boat_id), self |-> <<"/boats/", boat_id>>, boat |-> boatResult]

-----------------------------------------------------------------------------
\* POST /  (create a boat)

\* Faulty variant of PostBoatConflict: a taken name is not rejected.
PostBoatConflictIgnored(exists) == NoResponse

\* The response to a name that is taken; none otherwise.
PostBoatConflict(exists) ==
    IF exists THEN Response(403, ErrSameName) ELSE NoResponse

\* The request arrives while the datastore still has a key to allocate.
PostBoatStart(p) ==
    /\ req[p].pc \in Final
    /\ BoatIds \ DOMAIN boats # {}
    /\ \E c \in AnyCaller, body \in Bodies, valid \in BOOLEAN :
         req' = [req EXCEPT ![p] =
                   LET r == NewBoatRequest("postBoat", 0, body, c[1], c[2], "checkName")
                   IN  IF ~c[1] THEN Finish(r, Response(401, ErrAuth))
                       ELSE IF ~valid THEN Finish(r, InvalidBody)
                       ELSE IF ~hasAllFields(body)
                       THEN Finish(r, Response(400, ErrMissing))
                       ELSE r]
    /\ trip' = Observe(trip, req'[p])
    /\ UNCHANGED <<boats, loads>>

PostBoatCheckName(p) ==
    /\ req[p].op = "postBoat" /\ req[p].pc = "checkName"
    /\ LET r == req[p]
           out == PostBoatConflict(existsBoatWithSameName(r.body, 0))
       IN  req' = [req EXCEPT ![p] =
                     IF out.sent THEN Finish(r, out) ELSE [r EXCEPT !.pc = "insert"]]
    /\ UNCHANGED <<boats, loads, trip>>

\* The datastore allocates the key.
PostBoatInsert(p) ==
    /\ req[p].op = "postBoat" /\ req[p].pc = "insert"
    /\ \E id \in BoatIds \ DOMAIN boats :
         /\ boats' = Put(boats, id, InsertData(id, req[p].body, req[p].sub))
         /\ req' = [req EXCEPT ![p].boat_id = id, ![p].pc = "get"]
    /\ UNCHANGED <<loads, trip>>

PostBoatGet(p) ==
    /\ req[p].op = "postBoat" /\ req[p].pc = "get"
    /\ LET r == req[p]
           boatResult == Get(boats, r.boat_id)
       IN  req' = [req EXCEPT ![p] =
                     Finish([r EXCEPT !.boatResult = boatResult],
                            Json(201, affixIDAndSelf(r.boat_id, boatResult)))]
    /\ UNCHANGED <<boats, loads, trip>>

-----------------------------------------------------------------------------
\* PATCH /:boat_id and PUT /:boat_id  (update a boat)

\* Neither handler looks at req.authenticated.  Both name the helper module
\* helper, which the file imports as h; the name is taken to resolve to it.
UpdateStart(p, op) ==
    /\ req[p].pc \in Final
    /\ \E b \in BoatIds, c \in AnyCaller, body \in Bodies, valid \in BOOLEAN :
         req' = [req EXCEPT ![p] =
                   LET r == NewBoatRequest(op, b, body, c[1], c[2], "getBoat")
                   IN  IF ~valid THEN Finish(r, InvalidBody) ELSE r]
    /\ trip' = Observe(trip, req'[p])
    /\ UNCHANGED <<boats, loads>>

\* The 404 is sent for a missing boat, but the handler goes on.
UpdateGet(p, op) ==
    /\ req[p].op = op /\ req[p].pc = "getBoat"
    /\ LET r == req[p]
           boatResult == getBoatFromID(r.boat_id)
       IN  req' = [req EXCEPT ![p] =
                     [r EXCEPT !.boatResult = boatResult,
                               !.res = IF boatResult = UndefinedEntity
                                       THEN Response(404, ErrNotFound)
                                       ELSE r.res,
                               !.pc = "checkName"]]
    /\ UNCHANGED <<boats, loads, trip>>

\* A second response after the 404, and boatResult.name of a missing boat,
\* both throw.
UpdateCheckName(p, op, accepted, refusal) ==
    /\ req[p].op = op /\ req[p].pc = "checkName"
    /\ LET r == req[p]
       IN  req' = [req EXCEPT ![p] =
                     IF existsBoatWithSameName(r.body, r.boat_id)
                     THEN IF r.res.sent THEN Throw(r)
                          ELSE Finish(r, Response(403, ErrSameName))
                     ELSE IF r.boatResult = UndefinedEntity THEN Throw(r)
                     ELSE IF ~accepted THEN Finish(r, refusal)
                     ELSE [r EXCEPT !.boatResult = UpdatedBoat(r.boatResult, r.body),
                                    !.pc = "update"]]
    /\ UNCHANGED <<boats, loads, trip>>

UpdateWrite(p, op) ==
    /\ req[p].op = op /\ req[p].pc = "update"
    /\ LET r == req[p]
       IN  IF r.boat_id \in DOMAIN boats
           THEN /\ boats' = Put(boats, r.boat_id, r.boatResult)
                /\ req' = [req EXCEPT ![p].pc = "respond"]
           ELSE /\ boats' = boats
                /\ req' = [req EXCEPT ![p] = Throw(r)]
    /\ UNCHANGED <<loads, trip>>

UpdateRespond(p, op, status) ==
    /\ req[p].op = op /\ req[p].pc = "respond"
    /\ LET r == req[p]
           boatResult == getBoatFromID(r.boat_id)
       IN  req' = [req EXCEPT ![p] =
                     Finish([r EXCEPT !.boatResult = boatResult],
                            Json(status, affixIDAndSelf(r.boat_id, boatResult)))]
    /\ UNCHANGED <<boats, loads, trip>>

PatchBoatStart(p) == UpdateStart(p, "patchBoat")
PatchBoatGet(p) == UpdateGet(p, "patchBoat")
PatchBoatCheckName(p) ==
    UpdateCheckName(p, "patchBoat", updateFields(req[p].body),
                    Response(400, ErrNoProperties))
PatchBoatUpdate(p) == UpdateWrite(p, "patchBoat")
PatchBoatRespond(p) == UpdateRespond(p, "patchBoat", 200)

PutBoatStart(p) == UpdateStart(p, "putBoat")
PutBoatGet(p) == UpdateGet(p, "putBoat")
PutBoatCheckName(p) ==
    UpdateCheckName(p, "putBoat", updateAllFields(req[p].body),
                    Response(400, ErrPutAll))
PutBoatUpdate(p) == UpdateWrite(p, "putBoat")
PutBoatRespond(p) == UpdateRespond(p, "putBoat", 303)

-----------------------------------------------------------------------------
\* GET /:boat_id  (get a specific boat)

PendingLoad == [pending |-> TRUE]

\* The {id, self} entry built from a load read back from the datastore.
thisLoad(load_id) == [id |-> load_id, self |-> <<"/loads/", load_id>>]

\* Faulty variant of newBoatResult: the entries come out in reverse.
newBoatResultReversed(boat_id, boatResult, hydrated) ==
    [id |-> ToString(boat_id), name |-> Field(boatResult, "name"),
     type |-> Field(boatResult, "type"), length |-> Field(boatResult, "length"),
     loads |-> [i \in DOMAIN hydrated |-> hydrated[Len(hydrated) + 1 - i]],
     self |-> <<"/boats/", boat_id>>]

\* newBoatResult, the body of the 200 response.
newBoatResult(boat_id, boatResult, hydrated) ==
    [id |-> ToString(boat_id), name |-> Field(boatResult, "name"),
     type |-> Field(boatResult, "type"), length |-> Field(boatResult, "length"),
     loads |-> hydrated, self |-> <<"/boats/", boat_id>>]

\* The handler never looks at req.authenticated.
GetBoatStart(p) ==
    /\ req[p].pc \in Final
    /\ \E b \in BoatIds, c \in AnyCaller :
         req' = [req EXCEPT ![p] = NewRequest("getBoat", b, 0, c[1], c[2], "getBoat")]
    /\ trip' = Observe(trip, req'[p])
    /\ UNCHANGED <<boats, loads>>

GetBoatGet(p) ==
    /\ req[p].op = "getBoat" /\ req[p].pc = "getBoat"
    /\ LET r == req[p]
           boatResult == Get(boats, r.boat_id)
       IN  req' = [req EXCEPT ![p] =
                     IF boatResult = UndefinedEntity
                     THEN Finish(r, Response(404, ErrNoBoatId))
                     ELSE [r EXCEPT !.boatResult = boatResult,
                                    !.hydrated = [i \in 1..Len(boatResult.loads) |->
                                                    PendingLoad],
                                    !.pc = "getLoads"]]
    /\ UNCHANGED <<boats, loads, trip>>

\* One of the reads fanned out by Promise.all comes back; reading the key of
\* a load that is gone throws and rejects the whole Promise.all.
GetBoatGetLoad(p) ==
    /\ req[p].op = "getBoat" /\ req[p].pc = "getLoads"
    /\ \E i \in DOMAIN req[p].hydrated :
         /\ req[p].hydrated[i] = PendingLoad
         /\ LET r == req[p]
                load == r.boatResult.loads[i]
            IN  req' = [req EXCEPT ![p] =
                          IF Get(loads, load) = UndefinedEntity
                          THEN Throw(r)
                          ELSE [r EXCEPT !.hydrated[i] = thisLoad(load)]]
    /\ UNCHANGED <<boats, loads, trip>>

GetBoatRespond(p) ==
    /\ req[p].op = "getBoat" /\ req[p].pc = "getLoads"
    /\ \A i \in DOMAIN req[p].hydrated : req[p].hydrated[i] # PendingLoad
    /\ req' = [req EXCEPT ![p] =
                 Finish(req[p], Json(200, newBoatResult(req[p].boat_id, req[p].boatResult,
                                                        req[p].hydrated)))]
    /\ UNCHANGED <<boats, loads, trip>>

-----------------------------------------------------------------------------
\* Specifications.

Start(p) == AssignStart(p) \/ UnassignStart(p) \/ DeleteBoatStart(p) \/ GetBoatStart(p)

Step(p) ==
    \/ AssignGetBoat(p) \/ AssignGetLoad(p) \/ AssignUpdateBoat(p) \/ AssignUpdateLoad(p)
    \/ UnassignGetBoat(p) \/ UnassignGetLoad(p) \/ UnassignUpdateBoat(p)
    \/ UnassignUpdateLoad(p)
    \/ DeleteBoatGet(p) \/ DeleteBoatDelete(p)
    \/ GetBoatGet(p) \/ GetBoatGetLoad(p) \/ GetBoatRespond(p)

\* No handler is between two of its awaits.
Quiescent == \A q \in Procs : req[q].pc \in Final

\* One request at a time, each run to completion, all served by slot 1.
Next == \E p \in Procs : (Quiescent /\ p = 1 /\ Start(p)) \/ Step(p)

Spec == Init /\ [][Next]_vars

\* Every slot serves one request; the requests arrive at any time and their
\* handlers interleave at the awaits.
NextConc == \E p \in Procs : (req[p].pc = "idle" /\ Start(p)) \/ Step(p)

SpecConc == Init /\ [][NextConc]_vars

\* Only assign requests arrive, one per slot, and their handlers interleave
\* at the awaits.
NextAssigns ==
    \E p \in Procs :
        \/ (req[p].pc = "idle" /\ AssignStart(p))
        \/ AssignGetBoat(p) \/ AssignGetLoad(p)
        \/ AssignUpdateBoat(p) \/ AssignUpdateLoad(p)

\* Every boat and every load is stored and no request has arrived.
InitStored ==
    /\ boats = [b \in BoatIds |-> BoatEntity(b, Creator)]
    /\ loads = [l \in LoadIds |-> LoadEntity(l)]
    /\ req = [p \in Procs |-> Idle]
    /\ trip = NoTrip

SpecAssigns == InitStored /\ [][NextAssigns]_vars

\* The routes that create, change or delete records, one request at a time,
\* starting with every boat and load stored.
NextBoats ==
    \E p \in Procs :
        \/ /\ Quiescent /\ p = 1
           /\ \/ PostBoatStart(p) \/ PatchBoatStart(p) \/ PutBoatStart(p)
              \/ DeleteBoatStart(p) \/ AssignStart(p) \/ UnassignStart(p)
        \/ PostBoatCheckName(p) \/ PostBoatInsert(p) \/ PostBoatGet(p)
        \/ PatchBoatGet(p) \/ PatchBoatCheckName(p) \/ PatchBoatUpdate(p)
        \/ PatchBoatRespond(p)
        \/ PutBoatGet(p) \/ PutBoatCheckName(p) \/ PutBoatUpdate(p)
        \/ PutBoatRespond(p)
        \/ DeleteBoatGet(p) \/ DeleteBoatDelete(p)
        \/ AssignGetBoat(p) \/ AssignGetLoad(p) \/ AssignUpdateBoat(p)
        \/ AssignUpdateLoad(p)
        \/ UnassignGetBoat(p) \/ UnassignGetLoad(p) \/ UnassignUpdateBoat(p)
        \/ UnassignUpdateLoad(p)

SpecBoats == InitStored /\ [][NextBoats]_vars

\* The process fails while the handler of an Assign or Unassign waits on the
\* datastore: the handler never resumes and the store stays as it is.
Stop(p) ==
    /\ req[p].op \in {"assign", "unassign"}
    /\ req[p].pc \in {"getBoat", "getLoad", "updateBoat", "updateLoad"}
    /\ req' = [req EXCEPT ![p].pc = "stopped"]
    /\ UNCHANGED <<boats, loads, trip>>

\* Assign and Unassign requests one at a time, until the process fails.
NextStop ==
    \E p \in Procs :
        \/ (Quiescent /\ p = 1 /\ (AssignStart(p) \/ UnassignStart(p)))
        \/ AssignGetBoat(p) \/ AssignGetLoad(p)
        \/ AssignUpdateBoat(p) \/ AssignUpdateLoad(p)
        \/ UnassignGetBoat(p) \/ UnassignGetLoad(p)
        \/ UnassignUpdateBoat(p) \/ UnassignUpdateLoad(p)
        \/ Stop(p)

SpecStop == Init /\ [][NextStop]_vars

\* Only create-boat requests arrive, one at a time.
NextCreate ==
    \E p \in Procs :
        \/ (Quiescent /\ p = 1 /\ PostBoatStart(p))
        \/ PostBoatCheckName(p) \/ PostBoatInsert(p) \/ PostBoatGet(p)

SpecCreate == Init /\ [][NextCreate]_vars

-----------------------------------------------------------------------------
\* Properties.

Range(s) == {s[i] : i \in DOMAIN s}

\* The request in slot p has run to its end.
Ended(p) == req[p].pc \in {"done", "threw"}

\* Both entities of the request in slot p were stored when it arrived.
BothStored(p) ==
    /\ req[p].boat_id \in DOMAIN req[p].pre.boats
    /\ req[p].load_id \in DOMAIN req[p].pre.loads

\* Nothing stored differs from what was stored when the request in slot p arrived.
StoreUntouched(p) == boats = req[p].pre.boats /\ loads = req[p].pre.loads

Success == Response(204, "")

\* C1: whenever no request is in progress, for every stored Load L and stored
\* Boat B, L.carrier = B exactly when B.loads holds a reference to L.
CarrierMatchesLoads ==
    Quiescent =>
        \A L \in DOMAIN loads, B \in DOMAIN boats :
            (loads[L].carrier = B) <=> (L \in Range(boats[B].loads))

\* C1 witness: an unassign has just succeeded while another load is still
\* carried by a boat that lists it.
CarrierMatchesLoadsWitness ==
    /\ Quiescent
    /\ req[1].op = "unassign" /\ req[1].res = Success
    /\ \E L \in DOMAIN loads, B \in DOMAIN boats :
         loads[L].carrier = B /\ L \in Range(boats[B].loads)

\* C2: an authenticated Assign(B, L) of a stored Load with carrier null to a
\* stored Boat ends with the success response, and then L.carrier is B and
\* B.loads holds a reference to L.
AssignSucceeds ==
    \A p \in Procs :
        ( /\ req[p].op = "assign" /\ req[p].authenticated /\ Ended(p)
          /\ BothStored(p)
          /\ req[p].pre.loads[req[p].load_id].carrier = Null )
        => /\ req[p].pc = "done" /\ req[p].res = Success
           /\ req[p].boat_id \in DOMAIN boats /\ req[p].load_id \in DOMAIN loads
           /\ loads[req[p].load_id].carrier = req[p].boat_id
           /\ req[p].load_id \in Range(boats[req[p].boat_id].loads)

\* C2 witness: such an assign has ended, onto a boat that already had a load.
AssignSucceedsWitness ==
    /\ req[1].op = "assign" /\ req[1].pc = "done" /\ req[1].res = Success
    /\ loads[req[1].load_id].carrier = req[1].boat_id
    /\ req[1].pre.boats[req[1].boat_id].loads # <<>>

\* C3: an authenticated Assign(B, L) arriving while L.carrier is B (an earlier
\* Assign(B, L) succeeded and no Unassign undid it) writes nothing at any of
\* its steps and ends with 403 "already been assigned to this boat".
ReassignSameBoatConflicts ==
    \A p \in Procs :
        ( /\ req[p].op = "assign" /\ req[p].authenticated
          /\ BothStored(p)
          /\ req[p].pre.loads[req[p].load_id].carrier = req[p].boat_id )
        => /\ StoreUntouched(p)
           /\ Ended(p) => req[p].pc = "done" /\ req[p].res = Response(403, ErrThisBoat)

\* C3 witness: the second assign to the same boat has ended.
ReassignSameBoatWitness ==
    /\ req[1].op = "assign" /\ req[1].pc = "done" /\ req[1].authenticated
    /\ BothStored(1)
    /\ req[1].pre.loads[req[1].load_id].carrier = req[1].boat_id
    /\ req[1].load_id \in Range(boats[req[1].boat_id].loads)

\* C4: an authenticated Assign(B2, L) arriving while L.carrier is another
\* stored boat B1 ends with 403 "already been assigned to another boat",
\* L.carrier is still B1 and B2 is stored as before, without L in its loads.
AssignOtherBoatConflicts ==
    \A p \in Procs :
        ( /\ req[p].op = "assign" /\ req[p].authenticated
          /\ BothStored(p)
          /\ req[p].pre.loads[req[p].load_id].carrier \in
                 DOMAIN req[p].pre.boats \ {req[p].boat_id} )
        => /\ loads[req[p].load_id].carrier = req[p].pre.loads[req[p].load_id].carrier
           /\ boats[req[p].boat_id] = req[p].pre.boats[req[p].boat_id]
           /\ req[p].load_id \notin Range(boats[req[p].boat_id].loads)
           /\ Ended(p) => req[p].pc = "done" /\ req[p].res = Response(403, ErrOtherBoat)

\* C4 witness: the assign to the second boat has ended, the first boat still
\* listing the load.
AssignOtherBoatWitness ==
    /\ req[1].op = "assign" /\ req[1].pc = "done" /\ req[1].authenticated
    /\ BothStored(1)
    /\ \E B1 \in DOMAIN boats \ {req[1].boat_id} :
         /\ req[1].pre.loads[req[1].load_id].carrier = B1
         /\ req[1].load_id \in Range(boats[B1].loads)

\* C5: an authenticated Unassign(B, L) of a stored Load whose carrier is null
\* or another boat, from a stored Boat B, writes nothing at any of its steps
\* and ends with 403 "load is not on this boat".
UnassignNotOnBoatConflicts ==
    \A p \in Procs :
        ( /\ req[p].op = "unassign" /\ req[p].authenticated
          /\ BothStored(p)
          /\ req[p].pre.loads[req[p].load_id].carrier # req[p].boat_id )
        => /\ StoreUntouched(p)
           /\ Ended(p) => req[p].pc = "done" /\ req[p].res = Response(403, ErrNotOnBoat)

\* C5 witness: an unassign from a boat has ended while the load is on another boat.
UnassignNotOnBoatWitness ==
    /\ req[1].op = "unassign" /\ req[1].pc = "done" /\ req[1].authenticated
    /\ BothStored(1)
    /\ req[1].pre.loads[req[1].load_id].carrier \in DOMAIN boats \ {req[1].boat_id}

\* The identifiers shown in the loads of a fetched boat.
ShownLoads(body) == {body.loads[i].id : i \in DOMAIN body.loads}

\* C6: an authenticated Unassign(B, L) arriving while L.carrier is B and
\* B.loads lists L ends with the success response, and then B.loads holds no
\* reference to L and L.carrier is null; and a fetch of a stored boat answers
\* 200 showing no load that the boat's stored loads do not list.
UnassignSucceeds ==
    \A p \in Procs :
        /\ ( /\ req[p].op = "unassign" /\ req[p].authenticated /\ Ended(p)
             /\ BothStored(p)
             /\ req[p].pre.loads[req[p].load_id].carrier = req[p].boat_id
             /\ req[p].load_id \in Range(req[p].pre.boats[req[p].boat_id].loads) )
           => /\ req[p].pc = "done" /\ req[p].res = Success
              /\ req[p].boat_id \in DOMAIN boats /\ req[p].load_id \in DOMAIN loads
              /\ req[p].load_id \notin Range(boats[req[p].boat_id].loads)
              /\ loads[req[p].load_id].carrier = Null
        /\ ( /\ req[p].op = "getBoat" /\ Ended(p)
             /\ req[p].boat_id \in DOMAIN req[p].pre.boats )
           => /\ req[p].pc = "done" /\ req[p].res.status = 200
              /\ ShownLoads(req[p].res.body) \subseteq
                     Range(req[p].pre.boats[req[p].boat_id].loads)

\* C6 witness: such an unassign has ended, leaving another load on the boat.
UnassignSucceedsWitness ==
    /\ req[1].op = "unassign" /\ req[1].pc = "done" /\ req[1].res = Success
    /\ req[1].load_id \in Range(req[1].pre.boats[req[1].boat_id].loads)
    /\ boats[req[1].boat_id].loads # <<>>

\* The 404 response for the entities that were missing when a request arrived.
NotFound(p) ==
    IF req[p].boat_id \notin DOMAIN req[p].pre.boats
    THEN IF req[p].load_id \notin DOMAIN req[p].pre.loads
         THEN Response(404, ErrBoth)
         ELSE Response(404, ErrBoat)
    ELSE Response(404, ErrLoad)

\* C7: an authenticated Assign or Unassign naming a boat or a load that is
\* not stored writes nothing at any of its steps and ends with 404, citing
\* both when both are missing and else the one that is missing.
MissingIsNotFound ==
    \A p \in Procs :
        ( /\ req[p].op \in {"assign", "unassign"} /\ req[p].authenticated
          /\ ~BothStored(p) )
        => /\ StoreUntouched(p)
           /\ Ended(p) => req[p].pc = "done" /\ req[p].res = NotFound(p)

\* C7 witness: an assign to a missing boat has ended and the load it named is
\* stored as before.
MissingIsNotFoundWitness ==
    /\ req[1].op = "assign" /\ req[1].pc = "done" /\ req[1].authenticated
    /\ req[1].boat_id \notin DOMAIN req[1].pre.boats
    /\ req[1].load_id \in DOMAIN loads
    /\ req[1].res = Response(404, ErrBoat)

\* C8: when the latest requests are Assign(B1, L) of an unassigned load,
\* Unassign(B1, L) and Assign(B2, L) with B2 # B1, each has ended with the
\* success response; after the Unassign, L.carrier is null and B1.loads is
\* what it was before the first Assign; after the last Assign, L.carrier is
\* B2, B2.loads lists L and B1.loads does not.
RoundTrip ==
    \A p \in Procs :
        Ended(p) =>
            /\ trip.stage >= 1 => req[p].pc = "done" /\ req[p].res = Success
            /\ trip.stage = 2 =>
                   /\ loads[trip.load].carrier = Null
                   /\ boats[trip.boat].loads = trip.loads0
            /\ trip.stage = 3 =>
                   /\ loads[trip.load].carrier = trip.boat2
                   /\ trip.load \in Range(boats[trip.boat2].loads)
                   /\ trip.load \notin Range(boats[trip.boat].loads)

\* C8 witness: the third request of a round trip has ended, the first boat
\* having carried another load all along.
RoundTripWitness ==
    /\ trip.stage = 3 /\ req[1].pc = "done"
    /\ trip.loads0 # <<>>
    /\ loads[trip.load].carrier = trip.boat2

\* C9: an Assign or Unassign from an unauthenticated caller ends with a
\* response that carries a reason, and nothing stored has changed.
UnauthenticatedIsReported ==
    \A p \in Procs :
        ( /\ req[p].op \in {"assign", "unassign"} /\ ~req[p].authenticated
          /\ Ended(p) )
        => /\ req[p].res.sent /\ req[p].res.Error # ""
           /\ StoreUntouched(p)

\* C10: no stored Load's carrier references a Boat that is not stored.
NoDanglingCarrier ==
    \A L \in DOMAIN loads :
        loads[L].carrier # Null => loads[L].carrier \in DOMAIN boats

\* Slots p and q hold assigns of one load to two different boats and no other
\* request has arrived.
AssignRace(p, q) ==
    /\ p # q
    /\ req[p].op = "assign" /\ req[q].op = "assign"
    /\ req[p].load_id = req[q].load_id
    /\ req[p].boat_id # req[q].boat_id
    /\ \A o \in Procs \ {p, q} : req[o].pc = "idle"

\* Both assigns of a race have ended with the success response.
BothAssigned(p, q) ==
    /\ req[p].pc = "done" /\ req[p].res = Success
    /\ req[q].pc = "done" /\ req[q].res = Success

\* When both assigns of a race have succeeded, both boats list the load and
\* its carrier is one of the two.
DoubleAssignmentState ==
    \A p, q \in Procs :
        (AssignRace(p, q) /\ BothAssigned(p, q))
        => /\ req[p].load_id \in Range(boats[req[p].boat_id].loads)
           /\ req[p].load_id \in Range(boats[req[q].boat_id].loads)
           /\ loads[req[p].load_id].carrier \in {req[p].boat_id, req[q].boat_id}

\* The step in which an assign's load write lands leaves the load's carrier
\* referencing that assign's boat.
LoadWriteSetsCarrier ==
    \A p \in Procs :
        ( /\ req[p].op = "assign" /\ req[p].pc = "updateLoad"
          /\ req'[p].pc = "done" )
        => loads'[req[p].load_id].carrier = req[p].boat_id

\* C11: with the steps of two assigns of one load to two boats interleaved,
\* whenever both have succeeded both boats list the load, and every load
\* write that lands makes its own boat the carrier, so the carrier is the
\* boat of the write that landed last.
DoubleAssignmentRace == []DoubleAssignmentState /\ [][LoadWriteSetsCarrier]_vars

\* C11 witness: both assigns of a race have succeeded, both boats list the
\* load, and the carrier is the boat of slot 1, whose request arrived first.
DoubleAssignmentRaceWitness ==
    /\ AssignRace(1, 2) /\ BothAssigned(1, 2)
    /\ req[2].pre.boats = req[1].pre.boats /\ req[2].pre.loads = req[1].pre.loads
    /\ req[1].load_id \in Range(boats[req[1].boat_id].loads)
    /\ req[1].load_id \in Range(boats[req[2].boat_id].loads)
    /\ loads[req[1].load_id].carrier = req[1].boat_id

\* C12: every Assign and every Unassign handler that has run to its end has
\* sent a response, which is either the success response or a failure sent
\* with nothing stored changed.
EveryRequestAnswered ==
    \A p \in Procs :
        (req[p].op \in {"assign", "unassign"} /\ Ended(p))
        => /\ req[p].res.sent
           /\ (req[p].res = Success \/ StoreUntouched(p))

\* The routes the README marks Protected that create, change or delete records.
Mutating ==
    {"postBoat", "putBoat", "patchBoat", "deleteBoat", "assign", "unassign"}

DuplicateCreate(p) ==
    /\ req[p].op = "postBoat" /\ req[p].authenticated
    /\ req[p].res # InvalidBody /\ hasAllFields(req[p].body)
    /\ \E b \in DOMAIN req[p].pre.boats : req[p].pre.boats[b].name = req[p].body.name

\* C14: no two stored Boats have the same name, and a create-boat request
\* whose name a stored Boat already has ends with the 403 "There is already
\* a boat with this name." and has stored nothing.
BoatNamesUnique ==
    /\ \A a, b \in DOMAIN boats : a # b => boats[a].name # boats[b].name
    /\ \A p \in Procs :
           (DuplicateCreate(p) /\ Ended(p))
           => req[p].res = Response(403, ErrSameName) /\ StoreUntouched(p)

\* C14 witness: a create was rejected for the name of a boat that an earlier
\* create had stored.
BoatNamesUniqueWitness ==
    /\ DuplicateCreate(1) /\ req[1].pc = "done"
    /\ req[1].res = Response(403, ErrSameName)
    /\ \E b \in DOMAIN boats :
           boats[b].name = req[1].body.name /\ boats[b].type = "yacht"

\* Field f is stored in new exactly as in old, or in neither.
SameField(old, new, f) ==
    /\ (f \in DOMAIN new) = (f \in DOMAIN old)
    /\ f \in DOMAIN new => new[f] = old[f]

\* Apart from boat b and load l, the store is as it was when the request in
\* slot p arrived.
OthersUntouched(p, b, l) ==
    /\ DOMAIN boats = DOMAIN req[p].pre.boats
    /\ DOMAIN loads = DOMAIN req[p].pre.loads
    /\ \A o \in DOMAIN boats \ {b} : boats[o] = req[p].pre.boats[o]
    /\ \A o \in DOMAIN loads \ {l} : loads[o] = req[p].pre.loads[o]

\* C15: when an Assign or Unassign has succeeded, its Boat has the name,
\* type, length, owner and isPublic it had before, its Load the volume,
\* content and creation_date it had before, and every other record is
\* unchanged.
FullRecordsPersisted ==
    \A p \in Procs :
        ( /\ req[p].op \in {"assign", "unassign"}
          /\ req[p].pc = "done" /\ req[p].res = Success )
        => LET b == req[p].boat_id
               l == req[p].load_id
           IN  /\ \A f \in {"name", "type", "length", "owner", "isPublic"} :
                      SameField(req[p].pre.boats[b], boats[b], f)
               /\ \A f \in {"volume", "content", "creation_date"} :
                      SameField(req[p].pre.loads[l], loads[l], f)
               /\ OthersUntouched(p, b, l)

\* The checks of the Assign or Unassign in slot p passed on the store as it
\* was when the request arrived.
ChecksPassed(p) ==
    /\ req[p].authenticated /\ BothStored(p)
    /\ req[p].pre.loads[req[p].load_id].carrier =
           (IF req[p].op = "assign" THEN Null ELSE req[p].boat_id)

\* The store after the Boat write and before the Load write of the request
\* in slot p: no load has changed, and the boat lists the load of an Assign
\* whose carrier is still null, or no longer lists the load of an Unassign
\* whose carrier still references the boat.
BetweenWrites(p) ==
    LET b == req[p].boat_id
        l == req[p].load_id
    IN  /\ loads = req[p].pre.loads
        /\ \A o \in DOMAIN boats \ {b} : boats[o] = req[p].pre.boats[o]
        /\ IF req[p].op = "assign"
           THEN l \in Range(boats[b].loads) /\ loads[l].carrier = Null
           ELSE l \notin Range(boats[b].loads) /\ loads[l].carrier = b

\* C16: an Assign or Unassign writes the Boat first and the Load second, and
\* nothing before its checks have passed; where it has written nothing the
\* store is untouched, where it has written the Boat only (and so wherever
\* execution stops between the two writes) the store is as BetweenWrites
\* says, and in no state has a Load changed while the Boats have not.
BoatWrittenBeforeLoad ==
    \A p \in Procs :
        req[p].op \in {"assign", "unassign"}
        => /\ req[p].wrote \in {<<>>, <<"Boat">>, <<"Boat", "Load">>}
           /\ req[p].wrote # <<>> => ChecksPassed(p)
           /\ req[p].wrote = <<>> => StoreUntouched(p)
           /\ req[p].wrote = <<"Boat">> => BetweenWrites(p)
           /\ loads # req[p].pre.loads => boats # req[p].pre.boats
           /\ req[p].pc = "done"
                  => req[p].wrote = (IF req[p].res = Success
                                     THEN <<"Boat", "Load">> ELSE <<>>)

\* C16 witness: execution stopped between the two writes of an Unassign.
BoatWrittenBeforeLoadWitness ==
    /\ req[1].op = "unassign" /\ req[1].pc = "stopped"
    /\ req[1].wrote = <<"Boat">>
    /\ boats # req[1].pre.boats /\ loads = req[1].pre.loads

\* The caller of the request in slot p is authenticated and is the owner
\* stored with the request's boat when the request arrived.
CallerOwnsBoat(p) ==
    /\ req[p].authenticated
    /\ req[p].boat_id \in DOMAIN req[p].pre.boats
    /\ "owner" \in DOMAIN req[p].pre.boats[req[p].boat_id]
    /\ req[p].pre.boats[req[p].boat_id].owner = req[p].sub

\* C17: a Delete of a Boat that has ended has succeeded exactly when the
\* caller is authenticated and is the stored owner, and then the Boat is
\* removed and nothing else; otherwise it sent a failure and every stored
\* Boat is as before.
DeleteOnlyByOwner ==
    \A p \in Procs :
        (req[p].op = "deleteBoat" /\ Ended(p))
        => /\ (req[p].res = Success) = CallerOwnsBoat(p)
           /\ req[p].res = Success
                  => /\ boats = Remove(req[p].pre.boats, req[p].boat_id)
                     /\ req[p].boat_id \notin DOMAIN boats
                     /\ loads = req[p].pre.loads
           /\ req[p].res # Success
                  => /\ req[p].res.sent /\ req[p].res.status \in {401, 403}
                     /\ boats = req[p].pre.boats

\* C17 witness: the owner has deleted a boat while another boat is stored,
\* which is still there.
DeleteOnlyByOwnerWitness ==
    /\ req[1].op = "deleteBoat" /\ req[1].pc = "done" /\ req[1].res = Success
    /\ CallerOwnsBoat(1)
    /\ req[1].boat_id \notin DOMAIN boats /\ boats # <<>>

\* The sequence s with every entry equal to x taken out, the others in order.
RECURSIVE Without(_, _)
Without(s, x) ==
    IF s = <<>> THEN <<>>
    ELSE IF Head(s) = x THEN Without(Tail(s), x)
    ELSE <<Head(s)>> \o Without(Tail(s), x)

NoLostAssign ==
    \A p, q \in Procs :
        ( /\ p # q
          /\ req[p].op = "assign" /\ req[q].op = "assign"
          /\ req[p].boat_id = req[q].boat_id
          /\ req[p].load_id # req[q].load_id
          /\ \A o \in Procs \ {p, q} : req[o].pc = "idle"
          /\ BothAssigned(p, q) )
        => {req[p].load_id, req[q].load_id}
               \subseteq Range(boats[req[p].boat_id].loads)

\* C21: no stored Boat's loads hold a reference to the same Load twice.
NoDuplicateReferences ==
    \A b \in DOMAIN boats :
        "loads" \in DOMAIN boats[b]
        => \A i, j \in DOMAIN boats[b].loads :
               boats[b].loads[i] = boats[b].loads[j] => i = j

\* C22: every stored Boat, all created by Creator, still has Creator as its
\* stored owner; a Delete of a stored Boat by Creator has succeeded, and one
\* by another principal has been rejected as not the owner's.
OwnerSurvivesAssignment ==
    /\ \A b \in DOMAIN boats :
           "owner" \in DOMAIN boats[b] /\ boats[b].owner = Creator
    /\ \A p \in Procs :
           ( /\ req[p].op = "deleteBoat" /\ Ended(p) /\ req[p].authenticated
             /\ req[p].boat_id \in DOMAIN req[p].pre.boats )
           => req[p].res = (IF req[p].sub = Creator
                            THEN Success
                            ELSE Response(403, ErrNotOwner))

====
